---- MODULE Spec2Model ----
(***************************************************************************)
(* ESPHome integration (homeassistant/components/esphome/__init__.py):     *)
(* the reconnect supervisor ReconnectLogic, the session bookkeeping it     *)
(* touches (RuntimeEntryData, DomainData), the API client's connection as  *)
(* the supervisor sees it, and the two callbacks of a platform             *)
(* (platform_async_setup_entry) that keep the entity infos and states.     *)
(*                                                                         *)
(* asyncio runs one coroutine at a time and switches only at an await that *)
(* really suspends.  The asyncio.Lock objects of ReconnectLogic are only   *)
(* ever held over code without an await, so `async with lock` never        *)
(* suspends; the suspension points are Event.wait() on a clear event,      *)
(* APIClient.connect() and asyncio.sleep().  One action = the code between *)
(* two suspension points.                                                  *)
(***************************************************************************)
EXTENDS Integers, Sequences, FiniteSets, TLC

\* ---------------------------------------------------------------- bounds
MaxLoops == 2        \* loop task objects that can ever be created
MaxWaitTasks == 2    \* wait task objects alive or finished at one time
MaxTries == 4        \* attempts are not started once _tries reached this
MaxTriesSmall == 2   \* the same limit in the specifications of single methods
MaxFailures == 50    \* the same limit where only the backoff is followed
MaxCallbacks == 2    \* disconnect callbacks ever registered
MaxRecords == 2      \* records in one zeroconf batch
MaxKey == 4          \* entity keys are 1..MaxKey
MaxListedKey == 3    \* keys of the infos where every list is tried
MaxInfos == 2        \* entity infos in one list of the device
MaxStateKey == 2     \* entity states are sent for the keys 1..MaxStateKey
MaxReported == 3     \* sensors of the device whose session is followed

\* --------------------------------------------------- program constants
TriesCap == 10       \* min(tries, 10)
WaitCap == 60        \* min(1.8 ** tries, 60.0)

LoopIds == 1..MaxLoops
WaitIds == 1..MaxWaitTasks
CallbackIds == 1..MaxCallbacks
NoTask == 0          \* None in _loop_task / _wait_task

NoInfo == "none"     \* entry_data.device_info is None
OwnName == "dev1"    \* the name the device reports in its DeviceInfo
AliasSuffix == "._esphomelib._tcp.local."

\* Two of the platforms set up by platform_async_setup_entry (component_key).
Kinds == {"sensor", "switch"}
Keys == 1..MaxKey
Absent == "-"        \* the key is not in the dict
Values == {"v1", "v2"}
\* the keys of the services of a device (UserService.key)
MaxServices == 2
ServiceKeys == 1..MaxServices
\* no entry under a key of entry_data.services
NoService == <<"none">>
\* a device name with a '-' in it
DashName == "dev-2"

NoInfos == [k \in Keys |-> Absent]    \* {} as entry_data.info[component_key]
NoStates == [k \in Keys |-> Absent]   \* {} as entry_data.state[component_key]

VARIABLES
    connected,            \* ReconnectLogic._connected
    zc_listening,         \* ReconnectLogic._zc_listening
    zc_registered,        \* times this listener is registered with Zeroconf
    reconnect_event,      \* ReconnectLogic._reconnect_event is set
    loop_task,            \* ReconnectLogic._loop_task (NoTask or a loop id)
    loop,                 \* loop id -> position of that _reconnect_loop task
    tries,                \* ReconnectLogic._tries
    wait_task,            \* ReconnectLogic._wait_task (NoTask or a wait id)
    timers,               \* wait id -> state of that _wait_and_start_reconnect task
    entry_loaded,         \* DomainData._entry_datas holds the entry
    device_info,          \* entry_data.device_info (NoInfo or the device name)
    device_disabled,      \* the entry's device is disabled in the device registry
    available,            \* entry_data.available
    disconnect_callbacks, \* entry_data.disconnect_callbacks
    cb_calls,             \* callback id -> times it was invoked
    cb_made,              \* callbacks created so far
    cli_connected,        \* the client holds a connection whose on_stop hook is armed
    login_pending,        \* an on_login task is waiting for cli.device_info()
    reauth_started,       \* entry.async_start_reauth was called
    stop_tasks,           \* stop() tasks created by stop_callback, not yet run
    started,              \* start() has been called
    stop_returned,        \* stop() has returned at least once
    fails,                \* failed connect attempts since the last success (or start)
    lastOp,               \* the operation that produced this state
    info,                 \* entry_data.info: kind -> key -> name of the static info
    old_info,             \* entry_data.old_info, likewise
    state,                \* entry_data.state: kind -> key -> value
    add_entities,         \* keys of the entities the last async_list_entities made
    signals,              \* what the last platform callback sent and passed on
    list_pending,         \* platforms on_login has the list of the device to send to
    services,             \* entry_data.services: key -> the args of that service
    registered,           \* names of this domain's services in hass.services
    calls,                \* async_remove/async_register calls of the last _setup_services
    has_deep_sleep,       \* entry_data.device_info.has_deep_sleep
    writes                \* kind -> key -> state writes at the last device update

vars == <<connected, zc_listening, zc_registered, reconnect_event, loop_task, loop,
          tries, wait_task, timers, entry_loaded, device_info, device_disabled,
          available, disconnect_callbacks, cb_calls, cb_made, cli_connected,
          login_pending, reauth_started, stop_tasks, started, stop_returned,
          fails, lastOp, info, old_info, state, add_entities, signals,
          list_pending, services, registered, calls, has_deep_sleep, writes>>

\* groups used in UNCHANGED
zcVars == <<zc_listening, zc_registered>>
taskVars == <<loop_task, loop, wait_task, timers>>
entryVars == <<entry_loaded, device_info, device_disabled, available,
               disconnect_callbacks, cb_calls, cb_made>>
envVars == <<cli_connected, login_pending, reauth_started, stop_tasks, started>>
ghostVars == <<stop_returned, fails>>
serviceVars == <<services, registered, calls>>
entityVars == <<has_deep_sleep, writes>>
platformVars == <<info, old_info, state, add_entities, signals, list_pending,
                  serviceVars, entityVars>>

\* ------------------------------------------------------------ helpers
Min(a, b) == IF a < b THEN a ELSE b

RECURSIVE Pow(_, _)
Pow(b, n) == IF n = 0 THEN 1 ELSE b * Pow(b, n - 1)

\* Python 3 round(): to the nearest integer, ties to the even one.
RoundHalfEven(num, den) ==
    LET q == num \div den
        r == num % den
    IN  IF 2 * r > den THEN q + 1
        ELSE IF 2 * r < den THEN q
        ELSE IF q % 2 = 0 THEN q ELSE q + 1

\* 1.8 ** t >= 60.0, decided on exact fractions 18^k / 10^k.  1.8 ** t grows with
\* t, so it is enough that some k <= t passes; k stays below 8 to keep 18^k in the
\* range of TLC's 32-bit integers.
Saturated(t) == \E k \in 0..t : k <= 7 /\ Pow(18, k) >= WaitCap * Pow(10, k)

\* int() alone: the fraction is cut off, not rounded
WaitTimeTruncated(t0) ==
    LET t == Min(t0, TriesCap)
    IN  IF Saturated(t) THEN WaitCap ELSE Pow(18, t) \div Pow(10, t)

\* wait_time of _wait_and_start_reconnect for a value of self._tries
WaitTime(t0) ==
    LET t == Min(t0, TriesCap)
    IN  IF Saturated(t) THEN WaitCap ELSE RoundHalfEven(Pow(18, t), Pow(10, t))

\* filter_alias of async_update_records
FilterAlias(name) == name \o AliasSuffix

Range(s) == {s[i] : i \in 1..Len(s)}

\* the smallest id of S, or NoTask
FirstOf(S) == IF S = {} THEN NoTask ELSE CHOOSE i \in S : \A j \in S : i <= j

FreeLoops == {i \in LoopIds : loop[i] = "none"}
FreeTimers == {w \in WaitIds : timers[w].pc \in {"none", "done", "cancelled"}}
LiveTimers == {w \in WaitIds : timers[w].pc \in {"created", "sleeping"}}
LiveLoops == {i \in LoopIds : loop[i] \in {"ready", "connecting"}}
ConnectsInFlight == {i \in LoopIds : loop[i] = "connecting"}

NoTimer == [pc |-> "none", wait_time |-> 0, n |-> 0]

\* ---------------------------------------------------------------- Init
\* ReconnectLogic.__init__, and the entry data async_setup_entry has registered.
\* device_info may have been restored from storage (comment in _setup_services).
InitDevice(names, sleeps) ==
    /\ connected = TRUE
    /\ zc_listening = FALSE
    /\ zc_registered = 0
    /\ reconnect_event = FALSE
    /\ loop_task = NoTask
    /\ loop = [i \in LoopIds |-> "none"]
    /\ tries = 0
    /\ wait_task = NoTask
    /\ timers = [w \in WaitIds |-> NoTimer]
    /\ entry_loaded = TRUE
    /\ device_info \in names
    /\ device_disabled = FALSE
    /\ available = FALSE
    /\ disconnect_callbacks = <<>>
    /\ cb_calls = [c \in CallbackIds |-> 0]
    /\ cb_made = 0
    /\ cli_connected = FALSE
    /\ login_pending = FALSE
    /\ reauth_started = FALSE
    /\ stop_tasks = 0
    /\ started = FALSE
    /\ stop_returned = FALSE
    /\ fails = 0
    /\ lastOp = "init"
    /\ info = [c \in Kinds |-> NoInfos]
    /\ old_info = [c \in Kinds |-> NoInfos]
    /\ state = [c \in Kinds |-> NoStates]
    /\ add_entities = <<>>
    /\ signals = <<>>
    /\ list_pending = {}
    /\ services = [k \in ServiceKeys |-> NoService]
    /\ registered = {}
    /\ calls = <<>>
    /\ has_deep_sleep \in sleeps
    /\ writes = [c \in Kinds |-> [k \in Keys |-> 0]]

\* the entry of a device that does not sleep
InitNamed(names) == InitDevice(names, {FALSE})

\* the entry of a device that has never connected, or of one whose name
\* is in the store
Init == InitNamed({NoInfo, OwnName})

\* ------------------------------------------------- discovery listener
\* _start_zc_listen without its test of _zc_listening
start_zc_listen_unchecked ==
    /\ zc_registered' = zc_registered + 1
    /\ zc_listening' = TRUE

\* _start_zc_listen
start_zc_listen ==
    /\ zc_registered' = IF zc_listening THEN zc_registered ELSE zc_registered + 1
    /\ zc_listening' = TRUE

\* _stop_zc_listen
stop_zc_listen ==
    /\ zc_registered' = IF zc_listening THEN zc_registered - 1 ELSE zc_registered
    /\ zc_listening' = FALSE

\* ------------------------------------------------------------- start()
\* start() that keeps the loop task it already has
StartBodyOnce ==
    /\ IF loop_task # NoTask
       THEN UNCHANGED <<loop, loop_task>>
       ELSE /\ FreeLoops # {}
            /\ loop' = [loop EXCEPT ![FirstOf(FreeLoops)] = "ready"]
            /\ loop_task' = FirstOf(FreeLoops)
    /\ connected' = FALSE
    /\ reconnect_event' = TRUE
    /\ started' = TRUE
    /\ UNCHANGED <<zcVars, tries, wait_task, timers, entryVars, cli_connected,
                   login_pending, reauth_started, stop_tasks, ghostVars>>
    /\ UNCHANGED platformVars

\* The body of start(): a new loop task, _connected forced False, the event set.
StartBody ==
    /\ FreeLoops # {}
    /\ LET i == FirstOf(FreeLoops)
       IN  /\ loop' = [loop EXCEPT ![i] = "ready"]
           /\ loop_task' = i
    /\ connected' = FALSE
    /\ reconnect_event' = TRUE
    /\ started' = TRUE
    /\ UNCHANGED <<zcVars, tries, wait_task, timers, entryVars, cli_connected,
                   login_pending, reauth_started, stop_tasks, ghostVars>>
    /\ UNCHANGED platformVars

\* start() with no caller keeping to one call
StartUnguarded ==
    /\ StartBody
    /\ lastOp' = "start"

\* complete_setup calls start() once per ReconnectLogic object.
Start ==
    /\ ~started
    /\ StartBody
    /\ lastOp' = "start"

\* The public method called again on the same object (not done by this component).
StartAgain ==
    /\ started
    /\ StartBody
    /\ lastOp' = "start_again"

\* _reconnect_once without the checks of the entry and of the device
ReconnectOnceLimConnectedOnly(i, limit) ==
    /\ loop[i] = "ready"
    /\ reconnect_event
    /\ tries < limit
    /\ reconnect_event' = FALSE
    /\ IF connected
       THEN /\ UNCHANGED <<loop, tries>>
            /\ lastOp' = "reconnect_skip"
       ELSE /\ tries' = tries + 1
            /\ loop' = [loop EXCEPT ![i] = "connecting"]
            /\ lastOp' = "try_connect"
    /\ UNCHANGED <<connected, zcVars, loop_task, wait_task, timers, entryVars,
                   envVars, ghostVars>>
    /\ UNCHANGED platformVars

\* _reconnect_once without the clear() of the event
ReconnectOnceLimKeepsEvent(i, limit) ==
    /\ loop[i] = "ready"
    /\ reconnect_event
    /\ tries < limit
    /\ UNCHANGED reconnect_event
    /\ IF connected \/ ~entry_loaded \/ device_disabled
       THEN /\ UNCHANGED <<loop, tries>>
            /\ lastOp' = "reconnect_skip"
       ELSE /\ tries' = tries + 1
            /\ loop' = [loop EXCEPT ![i] = "connecting"]
            /\ lastOp' = "try_connect"
    /\ UNCHANGED <<connected, zcVars, loop_task, wait_task, timers, entryVars,
                   envVars, ghostVars>>
    /\ UNCHANGED platformVars

\* ------------------------------------------------------ _reconnect_once
\* From the return of Event.wait() to the next suspension: clear the event, the
\* three early returns, else the head of _try_connect up to the await of connect().
ReconnectOnceLim(i, limit) ==
    /\ loop[i] = "ready"
    /\ reconnect_event
    /\ tries < limit
    /\ reconnect_event' = FALSE
    /\ IF connected \/ ~entry_loaded \/ device_disabled
       THEN /\ UNCHANGED <<loop, tries>>
            /\ lastOp' = "reconnect_skip"
       ELSE /\ tries' = tries + 1
            /\ loop' = [loop EXCEPT ![i] = "connecting"]
            /\ lastOp' = "try_connect"
    /\ UNCHANGED <<connected, zcVars, loop_task, wait_task, timers, entryVars,
                   envVars, ghostVars>>
    /\ UNCHANGED platformVars

ReconnectOnce(i) == ReconnectOnceLim(i, MaxTries)

\* the except branch without its `if self._wait_task is not None: return`
schedule_wait_unchecked ==
    /\ FreeTimers # {}
    /\ LET w == FirstOf(FreeTimers)
       IN  /\ wait_task' = w
           /\ timers' = [timers EXCEPT ![w] =
                            [pc |-> "created", wait_time |-> 0, n |-> fails + 1]]

\* _try_connect, `async with self._wait_task_lock` of the except branch
schedule_wait ==
    IF wait_task # NoTask
    THEN UNCHANGED <<wait_task, timers>>
    ELSE /\ FreeTimers # {}
         /\ LET w == FirstOf(FreeTimers)
            IN  /\ wait_task' = w
                /\ timers' = [timers EXCEPT ![w] =
                                 [pc |-> "created", wait_time |-> 0,
                                  n |-> fails + 1]]

\* _try_connect, except APIConnectionError: connect() raised.  auth: the error is
\* RequiresEncryptionAPIError or InvalidEncryptionKeyAPIError.
ConnectFail(i, auth) ==
    /\ loop[i] = "connecting"
    /\ reauth_started' = (reauth_started \/ auth)
    /\ start_zc_listen
    /\ schedule_wait
    /\ loop' = [loop EXCEPT ![i] = "ready"]
    /\ fails' = fails + 1
    /\ lastOp' = "connect_fail"
    /\ UNCHANGED <<connected, reconnect_event, loop_task, tries, entryVars,
                   cli_connected, login_pending, stop_tasks, started,
                   stop_returned>>
    /\ UNCHANGED platformVars

\* a loop without the `except Exception` of _reconnect_loop: the task ends
ConnectRaiseEndsLoop(i) ==
    /\ loop[i] = "connecting"
    /\ loop' = [loop EXCEPT ![i] = "failed"]
    /\ fails' = fails + 1
    /\ lastOp' = "connect_error"
    /\ UNCHANGED <<connected, zcVars, reconnect_event, loop_task, tries,
                   wait_task, timers, entryVars, envVars, stop_returned>>
    /\ UNCHANGED platformVars

\* _try_connect, connect() raised an exception that is neither an
\* APIConnectionError nor a cancellation: no except clause of _try_connect takes
\* it, _reconnect_once passes it on, `except Exception` of _reconnect_loop logs it
\* and the loop goes round to the next _reconnect_once.
ConnectRaise(i) ==
    /\ loop[i] = "connecting"
    /\ loop' = [loop EXCEPT ![i] = "ready"]
    /\ fails' = fails + 1
    /\ lastOp' = "connect_error"
    /\ UNCHANGED <<connected, zcVars, reconnect_event, loop_task, tries,
                   wait_task, timers, entryVars, envVars, stop_returned>>
    /\ UNCHANGED platformVars

\* the else branch without its reset of _tries
ConnectSucceedKeepsTries(i) ==
    /\ loop[i] = "connecting"
    /\ ~cli_connected
    /\ cli_connected' = TRUE
    /\ connected' = TRUE
    /\ stop_zc_listen
    /\ login_pending' = TRUE
    /\ loop' = [loop EXCEPT ![i] = "ready"]
    /\ fails' = 0
    /\ lastOp' = "connect_ok"
    /\ UNCHANGED <<reconnect_event, loop_task, tries, wait_task, timers, entryVars,
                   reauth_started, stop_tasks, started, stop_returned>>
    /\ UNCHANGED platformVars

\* _try_connect, else branch: connect() returned.  The client refuses a second
\* connection ("Already connected"), so it succeeds only when it holds none.
ConnectSucceed(i) ==
    /\ loop[i] = "connecting"
    /\ ~cli_connected
    /\ cli_connected' = TRUE
    /\ tries' = 0
    /\ connected' = TRUE
    /\ stop_zc_listen
    /\ login_pending' = TRUE
    /\ loop' = [loop EXCEPT ![i] = "ready"]
    /\ fails' = 0
    /\ lastOp' = "connect_ok"
    /\ UNCHANGED <<reconnect_event, loop_task, wait_task, timers, entryVars,
                   reauth_started, stop_tasks, started, stop_returned>>
    /\ UNCHANGED platformVars

\* ------------------------------------------- _wait_and_start_reconnect
\* First step of the wait task: read _tries, compute wait_time, go to sleep.
WaitStart(w) ==
    /\ timers[w].pc = "created"
    /\ timers' = [timers EXCEPT ![w] =
                     [pc |-> "sleeping", wait_time |-> WaitTime(tries),
                      n |-> timers[w].n]]
    /\ lastOp' = "wait_start"
    /\ UNCHANGED <<connected, zcVars, reconnect_event, loop_task, loop, tries,
                   wait_task, entryVars, envVars, ghostVars>>
    /\ UNCHANGED platformVars

\* The sleep is over: forget the wait task and set the event.
TimerFire(w) ==
    /\ timers[w].pc = "sleeping"
    /\ timers' = [timers EXCEPT ![w] = [NoTimer EXCEPT !.pc = "done"]]
    /\ wait_task' = NoTask
    /\ reconnect_event' = TRUE
    /\ lastOp' = "timer_fire"
    /\ UNCHANGED <<connected, zcVars, loop_task, loop, tries, entryVars,
                   envVars, ghostVars>>
    /\ UNCHANGED platformVars

\* -------------------------------------------------------------- stop()
\* Task.cancel(): the task gets CancelledError at the await it is suspended at
\* (or before its first step) and runs no more of its code.
CancelLoop(l) ==
    IF l # NoTask /\ loop[l] \in {"ready", "connecting"}
    THEN [loop EXCEPT ![l] = "cancelled"]
    ELSE loop

\* no cancel() of the wait task
CancelTimerMissing(w) == timers

CancelTimer(w) ==
    IF w # NoTask /\ timers[w].pc \in {"created", "sleeping"}
    THEN [timers EXCEPT ![w] = [NoTimer EXCEPT !.pc = "cancelled"]]
    ELSE timers

\* stop() without its _stop_zc_listen()
StopBodyKeepsListener ==
    /\ loop' = CancelLoop(loop_task)
    /\ loop_task' = NoTask
    /\ timers' = CancelTimer(wait_task)
    /\ wait_task' = NoTask
    /\ stop_returned' = TRUE
    /\ UNCHANGED <<connected, zcVars, reconnect_event, tries, entryVars,
                   cli_connected, login_pending, reauth_started, started, fails>>
    /\ UNCHANGED platformVars

StopBody ==
    /\ loop' = CancelLoop(loop_task)
    /\ loop_task' = NoTask
    /\ timers' = CancelTimer(wait_task)
    /\ wait_task' = NoTask
    /\ stop_zc_listen
    /\ stop_returned' = TRUE
    /\ UNCHANGED <<connected, reconnect_event, tries, entryVars, cli_connected,
                   login_pending, reauth_started, started, fails>>
    /\ UNCHANGED platformVars

\* stop() run as the task stop_callback created
StopTask ==
    /\ stop_tasks > 0
    /\ StopBody
    /\ stop_tasks' = stop_tasks - 1
    /\ lastOp' = "stop"

\* stop() awaited directly
StopCall ==
    /\ started
    /\ StopBody
    /\ UNCHANGED stop_tasks
    /\ lastOp' = "stop"

\* ------------------------------------------------ async_update_records
RecordTypes == {"PTR", "A"}
RecordAliases == {FilterAlias(OwnName), FilterAlias("dev2"), "dev1._http._tcp.local."}
Records == [type : RecordTypes, alias : RecordAliases]
Batches == UNION {[1..k -> Records] : k \in 0..MaxRecords}

\* the alias compared, the record type not
MatchesAnyType(records) ==
    \E k \in 1..Len(records) : records[k].alias = FilterAlias(device_info)

Matches(records) ==
    \E k \in 1..Len(records) :
        records[k].type = "PTR" /\ records[k].alias = FilterAlias(device_info)

\* a listener that cancels the pending wait task when it raises the signal
AsyncUpdateRecordsCancel(records) ==
    /\ zc_registered > 0
    /\ IF connected \/ reconnect_event \/ ~entry_loaded \/ device_info = NoInfo
          \/ ~Matches(records)
       THEN /\ UNCHANGED <<reconnect_event, wait_task, timers>>
            /\ lastOp' = "discovery_noop"
       ELSE /\ reconnect_event' = TRUE
            /\ timers' = CancelTimer(wait_task)
            /\ wait_task' = NoTask
            /\ lastOp' = "discovery_wake"
    /\ UNCHANGED <<connected, zcVars, loop_task, loop, tries, entryVars, envVars,
                   ghostVars>>
    /\ UNCHANGED platformVars

\* Zeroconf calls the listener while it is registered.
AsyncUpdateRecords(records) ==
    /\ zc_registered > 0
    /\ IF connected \/ reconnect_event \/ ~entry_loaded \/ device_info = NoInfo
       THEN /\ UNCHANGED reconnect_event
            /\ lastOp' = "discovery_noop"
       ELSE IF Matches(records)
       THEN /\ reconnect_event' = TRUE
            /\ lastOp' = "discovery_wake"
       ELSE /\ UNCHANGED reconnect_event
            /\ lastOp' = "discovery_noop"
    /\ UNCHANGED <<connected, zcVars, taskVars, tries, entryVars, envVars,
                   ghostVars>>
    /\ UNCHANGED platformVars

\* ------------------------------------------------------ _on_disconnect
\* the callbacks of the list not called
CallNone(cbs) == cb_calls

\* cb_calls after every callback of the list has been called once
CallAll(cbs) ==
    [c \in CallbackIds |->
        cb_calls[c] + Cardinality({k \in 1..Len(cbs) : cbs[k] = c})]

\* the hook of a session that forgets the static infos with the connection
\* EsphomeEntity._on_device_update when entry_data.available is avail: the
\* number of times the entity writes its state
OnDeviceUpdateAlways(avail) == 1

OnDeviceUpdate(avail) == IF avail THEN 0 ELSE 1

\* entry_data.async_update_device_state when entry_data.available is avail:
\* the signal reaches the entity of every key of info once
UpdateDeviceState(avail) ==
    [c \in Kinds |->
        [k \in Keys |-> IF info[c][k] # Absent THEN OnDeviceUpdate(avail) ELSE 0]]

\* EsphomeEntity.available
EntityAvailable == IF has_deep_sleep THEN TRUE ELSE available

OnDisconnectClearsInfo ==
    /\ cli_connected
    /\ cli_connected' = FALSE
    /\ login_pending' = FALSE
    /\ IF ~entry_loaded
       THEN /\ UNCHANGED <<connected, zcVars, reconnect_event, tries, available,
                           disconnect_callbacks, cb_calls, writes>>
            /\ lastOp' = "on_disconnect_noop"
       ELSE /\ cb_calls' = CallAll(disconnect_callbacks)
            /\ disconnect_callbacks' = <<>>
            /\ available' = FALSE
            /\ writes' = UpdateDeviceState(FALSE)
            /\ start_zc_listen
            /\ tries' = 0
            /\ connected' = FALSE
            /\ reconnect_event' = TRUE
            /\ lastOp' = "on_disconnect"
    /\ list_pending' = {}
    /\ UNCHANGED <<taskVars, entry_loaded, device_info, device_disabled, cb_made,
                   reauth_started, stop_tasks, started, ghostVars>>
    /\ info' = [c \in Kinds |-> NoInfos]
    /\ UNCHANGED <<old_info, state, add_entities, signals, serviceVars,
                   has_deep_sleep>>

\* The client lost (or closed) its connection and awaits the on_stop hook; the
\* requests of a running on_login fail with it.
OnDisconnect ==
    /\ cli_connected
    /\ cli_connected' = FALSE
    /\ login_pending' = FALSE
    /\ IF ~entry_loaded
       THEN /\ UNCHANGED <<connected, zcVars, reconnect_event, tries, available,
                           disconnect_callbacks, cb_calls, writes>>
            /\ lastOp' = "on_disconnect_noop"
       ELSE /\ cb_calls' = CallAll(disconnect_callbacks)
            /\ disconnect_callbacks' = <<>>
            /\ available' = FALSE
            /\ writes' = UpdateDeviceState(FALSE)
            /\ start_zc_listen
            /\ tries' = 0
            /\ connected' = FALSE
            /\ reconnect_event' = TRUE
            /\ lastOp' = "on_disconnect"
    /\ list_pending' = {}
    /\ UNCHANGED <<taskVars, entry_loaded, device_info, device_disabled, cb_made,
                   reauth_started, stop_tasks, started, ghostVars>>
    /\ UNCHANGED <<info, old_info, state, add_entities, signals, serviceVars,
                   has_deep_sleep>>

\* ------------------------------------------------------------ on_login
\* on_login up to the return of cli.device_info()
LoginDeviceInfo ==
    /\ login_pending
    /\ cli_connected
    /\ login_pending' = FALSE
    /\ device_info' = OwnName
    /\ available' = TRUE
    /\ writes' = UpdateDeviceState(TRUE)
    /\ list_pending' = Kinds
    /\ lastOp' = "login"
    /\ UNCHANGED <<connected, zcVars, reconnect_event, taskVars, tries,
                   entry_loaded, device_disabled, disconnect_callbacks, cb_calls,
                   cb_made, cli_connected, reauth_started, stop_tasks, started,
                   ghostVars>>
    /\ UNCHANGED <<info, old_info, state, add_entities, signals, serviceVars,
                   has_deep_sleep>>

\* async_on_state_subscription: the device asks for a Home Assistant state
AddDisconnectCallback ==
    /\ cli_connected
    /\ ~login_pending
    /\ cb_made < MaxCallbacks
    /\ cb_made' = cb_made + 1
    /\ disconnect_callbacks' = Append(disconnect_callbacks, cb_made + 1)
    /\ lastOp' = "add_callback"
    /\ UNCHANGED <<connected, zcVars, reconnect_event, taskVars, tries,
                   entry_loaded, device_info, device_disabled, available, cb_calls,
                   envVars, ghostVars>>
    /\ UNCHANGED platformVars

\* ---------------------------------------------------- _cleanup_instance
\* Up to the await of client.disconnect(): the entry data is popped, the
\* disconnect callbacks run (the list is kept), stop_callback creates a stop() task.
Cleanup ==
    /\ entry_loaded
    /\ entry_loaded' = FALSE
    /\ cb_calls' = CallAll(disconnect_callbacks)
    /\ stop_tasks' = IF started THEN stop_tasks + 1 ELSE stop_tasks
    /\ lastOp' = "cleanup"
    /\ UNCHANGED <<connected, zcVars, reconnect_event, taskVars, tries,
                   device_info, device_disabled, available, disconnect_callbacks,
                   cb_made, cli_connected, login_pending, reauth_started, started,
                   ghostVars>>
    /\ UNCHANGED platformVars

\* The user disables or enables the device in the device registry.
SetDeviceDisabled ==
    /\ device_info # NoInfo
    /\ device_disabled' = ~device_disabled
    /\ lastOp' = "set_disabled"
    /\ UNCHANGED <<connected, zcVars, reconnect_event, taskVars, tries,
                   entry_loaded, device_info, available, disconnect_callbacks,
                   cb_calls, cb_made, envVars, ghostVars>>
    /\ UNCHANGED platformVars

\* ------------------------------------------ platform_async_setup_entry
\* everything but the data of the platforms
sessionVars == <<connected, zcVars, reconnect_event, taskVars, tries, entryVars,
                 envVars, ghostVars, serviceVars, entityVars>>

\* the keys of a dict
KeysOf(d) == {k \in Keys : d[k] # Absent}

\* The keys of S as a list.  Python walks the values of a dict in insertion
\* order; here they are walked in key order (the removal signals of one call
\* are told apart by their key, not by their order).
RECURSIVE KeyList(_)
KeyList(S) ==
    IF S = {} THEN <<>>
    ELSE LET k == CHOOSE x \in S : \A y \in S : x <= y
         IN  <<k>> \o KeyList(S \ {k})

\* Entity infos of the sensor platform, one per key up to n.
InfosUpTo(n) == [kind : {"sensor"}, key : 1..n, name : {"a"}]

\* The entity infos the lists of the device are made of: key 1 of the sensor
\* platform also under a second name, and one info of the other platform with
\* the key of a sensor.
ListedInfos ==
    InfosUpTo(MaxListedKey)
        \cup {[kind |-> "sensor", key |-> 1, name |-> "b"],
              [kind |-> "switch", key |-> 1, name |-> "a"]}

\* the infos of the sensors with the keys of S, in the order of the keys
KeyListInfos(S) ==
    [n \in 1..Cardinality(S) |->
        [kind |-> "sensor", key |-> KeyList(S)[n], name |-> "a"]]

\* the lists of at most n elements of D
ListsOver(D, n) == UNION {[1..m -> D] : m \in 0..n}

InfoLists == ListsOver(ListedInfos, MaxInfos)

\* the lists of a device that has sensors only
ShortLists == ListsOver(InfosUpTo(MaxStateKey), MaxInfos)

\* the loop with a kept key left in old_infos (no pop)
RECURSIVE ListLoopNoPop(_, _, _, _)
ListLoopNoPop(kind, infos, i, acc) ==
    IF i > Len(infos) THEN acc
    ELSE LET d == infos[i]
             seen == IF acc.old[d.key] # Absent
                     THEN acc
                     ELSE [acc EXCEPT !.add = Append(@, d.key)]
         IN  IF d.kind # kind
             THEN ListLoopNoPop(kind, infos, i + 1, acc)
             ELSE ListLoopNoPop(kind, infos, i + 1,
                                [seen EXCEPT !.new[d.key] = d.name])

\* `for info in infos` of async_list_entities from element i on;
\* acc = [old |-> old_infos, new |-> new_infos, add |-> add_entities]
RECURSIVE ListLoop(_, _, _, _)
ListLoop(kind, infos, i, acc) ==
    IF i > Len(infos) THEN acc
    ELSE LET d == infos[i]
             seen == IF acc.old[d.key] # Absent
                     THEN [acc EXCEPT !.old[d.key] = Absent]
                     ELSE [acc EXCEPT !.add = Append(@, d.key)]
         IN  IF d.kind # kind
             THEN ListLoop(kind, infos, i + 1, acc)
             ELSE ListLoop(kind, infos, i + 1,
                           [seen EXCEPT !.new[d.key] = d.name])

\* old_infos, new_infos and add_entities at the end of the loop of
\* async_list_entities, cur being entry_data.info[component_key] at the call
ListResult(kind, infos, cur) ==
    ListLoop(kind, infos, 1, [old |-> cur, new |-> NoInfos, add |-> <<>>])

\* entry_data.async_remove_entity(hass, component_key, key), one per list element
RemoveSignals(kind, keys) ==
    [n \in 1..Len(keys) |->
        [op |-> "remove", kind |-> kind, key |-> keys[n], batch |-> <<>>]]

\* async_add_entities(add_entities)
AddSignal(kind, batch) ==
    [op |-> "add", kind |-> kind, key |-> 0, batch |-> batch]

\* entry_data.async_update_entity(hass, component_key, key)
UpdateSignal(kind, key) ==
    [op |-> "update", kind |-> kind, key |-> key, batch |-> <<>>]

\* async_add_entities called before the removals
ListSignalsAddFirst(kind, removed, batch) ==
    <<AddSignal(kind, batch)>> \o RemoveSignals(kind, removed)

\* the calls async_list_entities makes after its loop, in their order
ListSignals(kind, removed, batch) ==
    RemoveSignals(kind, removed) \o <<AddSignal(kind, batch)>>

\* EsphomeEntity._has_state and EsphomeEntity._state of the entity (kind, key)
HasState(kind, key) == state[kind][key] # Absent
StateOf(kind, key) == state[kind][key]

\* async_list_entities that empties the states of its platform
AsyncListEntitiesResetsState(kind, infos) ==
    /\ entry_loaded
    /\ \E r \in {ListResult(kind, infos, info[kind])} :
           /\ old_info' = [old_info EXCEPT ![kind] = r.old]
           /\ info' = [info EXCEPT ![kind] = r.new]
           /\ add_entities' = r.add
           /\ signals' = ListSignals(kind, KeyList(KeysOf(r.old)), r.add)
    /\ state' = [state EXCEPT ![kind] = NoStates]
    /\ list_pending' = list_pending \ {kind}
    /\ lastOp' = "list_entities"
    /\ UNCHANGED sessionVars

\* async_list_entities of the platform `kind`, called with the list infos.
\* old_infos is the dict entry_data.info[component_key] itself: the loop pops the
\* kept keys out of it, what is left becomes old_info.
AsyncListEntities(kind, infos) ==
    /\ entry_loaded
    /\ \E r \in {ListResult(kind, infos, info[kind])} :
           /\ old_info' = [old_info EXCEPT ![kind] = r.old]
           /\ info' = [info EXCEPT ![kind] = r.new]
           /\ add_entities' = r.add
           /\ signals' = ListSignals(kind, KeyList(KeysOf(r.old)), r.add)
    /\ list_pending' = list_pending \ {kind}
    /\ lastOp' = "list_entities"
    /\ UNCHANGED <<state, sessionVars>>

\* The entity states the device sends.
SentStates ==
    [kind : {"sensor"}, key : 1..MaxStateKey, value : Values]
        \cup [kind : {"switch"}, key : {1}, value : Values]

\* the states of a device whose only entity with a state is sensor 1
SessionStates == [kind : {"sensor"}, key : {1}, value : {"v1"}]

\* async_entity_state that drops the state of a key info does not hold
AsyncEntityStateKnownOnly(kind, st) ==
    /\ entry_loaded
    /\ IF st.kind # kind \/ info[kind][st.key] = Absent
       THEN /\ signals' = <<>>
            /\ lastOp' = "entity_state_skip"
            /\ UNCHANGED state
       ELSE /\ state' = [state EXCEPT ![kind][st.key] = st.value]
            /\ signals' = <<UpdateSignal(kind, st.key)>>
            /\ lastOp' = "entity_state"
    /\ add_entities' = <<>>
    /\ UNCHANGED <<info, old_info, list_pending, sessionVars>>

\* async_entity_state of the platform `kind`, called with the state st
AsyncEntityState(kind, st) ==
    /\ entry_loaded
    /\ IF st.kind # kind
       THEN /\ signals' = <<>>
            /\ lastOp' = "entity_state_skip"
            /\ UNCHANGED state
       ELSE /\ state' = [state EXCEPT ![kind][st.key] = st.value]
            /\ signals' = <<UpdateSignal(kind, st.key)>>
            /\ lastOp' = "entity_state"
    /\ add_entities' = <<>>
    /\ UNCHANGED <<info, old_info, list_pending, sessionVars>>

\* ---------------------------------------------- on_login, second half
\* The lists of a device with MaxReported sensors, each named once; the keys
\* can differ from one connection to the next (the device was reconfigured).
ReportedLists ==
    {KeyListInfos(S) : S \in {T \in SUBSET Keys : Cardinality(T) = MaxReported}}

\* on_login from the return of cli.list_entities_services():
\* entry_data.async_update_static_infos sends the list to the platforms, each
\* platform's async_list_entities is called with it once.
LoginListEntities(kind, infos) ==
    /\ cli_connected
    /\ ~login_pending
    /\ kind \in list_pending
    /\ AsyncListEntities(kind, infos)

\* async_on_state after cli.subscribe_states: entry_data.async_update_state sends
\* the state to the platforms.
LoginEntityState(kind, st) ==
    /\ cli_connected
    /\ ~login_pending
    /\ AsyncEntityState(kind, st)

\* ---------------------------------------------------- specifications
Next ==
    \/ Start
    \/ \E i \in LoopIds : ReconnectOnce(i)
    \/ \E i \in LoopIds : \E auth \in BOOLEAN : ConnectFail(i, auth)
    \/ \E i \in LoopIds : ConnectRaise(i)
    \/ \E i \in LoopIds : ConnectSucceed(i)
    \/ \E w \in WaitIds : WaitStart(w)
    \/ \E w \in WaitIds : TimerFire(w)
    \/ StopTask
    \/ StopCall
    \/ \E records \in Batches : AsyncUpdateRecords(records)
    \/ OnDisconnect
    \/ LoginDeviceInfo
    \/ AddDisconnectCallback
    \/ Cleanup
    \/ SetDeviceDisabled

\* The program: start() is called once.
Spec == Init /\ [][Next]_vars

\* The class used through its public methods, start() any number of times.
NextRestart ==
    \/ Start
    \/ StartAgain
    \/ \E i \in LoopIds : ReconnectOnceLim(i, MaxTriesSmall)
    \/ \E i \in LoopIds : ConnectFail(i, FALSE)
    \/ \E i \in LoopIds : ConnectSucceed(i)
    \/ \E w \in WaitIds : WaitStart(w)
    \/ \E w \in WaitIds : TimerFire(w)
    \/ StopCall
    \/ OnDisconnect

SpecRestart == Init /\ [][NextRestart]_vars

\* The zeroconf listener in every situation it can be called in.
NextDiscovery ==
    \/ Start
    \/ \E i \in LoopIds : ReconnectOnceLim(i, MaxTriesSmall)
    \/ \E i \in LoopIds : ConnectFail(i, FALSE)
    \/ \E i \in LoopIds : ConnectSucceed(i)
    \/ \E w \in WaitIds : WaitStart(w)
    \/ \E w \in WaitIds : TimerFire(w)
    \/ \E records \in Batches : AsyncUpdateRecords(records)
    \/ OnDisconnect
    \/ LoginDeviceInfo
    \/ Cleanup

SpecDiscovery == Init /\ [][NextDiscovery]_vars

\* The supervisor followed through connect attempts and retry timers only (no
\* zeroconf record, no stop, no unload), far enough to pass the cap of the wait.
NextBackoff ==
    \/ Start
    \/ \E i \in LoopIds : ReconnectOnceLim(i, MaxFailures)
    \/ \E i \in LoopIds : ConnectFail(i, FALSE)
    \/ \E i \in LoopIds : ConnectSucceed(i)
    \/ \E w \in WaitIds : WaitStart(w)
    \/ \E w \in WaitIds : TimerFire(w)
    \/ OnDisconnect

SpecBackoff == Init /\ [][NextBackoff]_vars

\* async_list_entities alone, called with any list (the dispatcher calls every
\* platform with the whole list of the device).
NextLists ==
    \E kind \in Kinds : \E infos \in InfoLists : AsyncListEntities(kind, infos)

SpecLists == Init /\ [][NextLists]_vars

\* Both platform callbacks, called with any list and any state in any order.
NextPlatform ==
    \/ \E kind \in Kinds : \E infos \in ShortLists : AsyncListEntities(kind, infos)
    \/ \E kind \in Kinds : \E st \in SentStates : AsyncEntityState(kind, st)

SpecPlatform == Init /\ [][NextPlatform]_vars

\* The supervisor and the platforms of one entry with nothing in its store: the
\* lists and states of the device arrive through on_login.
NextSession ==
    \/ Start
    \/ \E i \in LoopIds : ReconnectOnceLim(i, MaxTriesSmall)
    \/ \E i \in LoopIds : ConnectFail(i, FALSE)
    \/ \E i \in LoopIds : ConnectSucceed(i)
    \/ \E w \in WaitIds : WaitStart(w)
    \/ \E w \in WaitIds : TimerFire(w)
    \/ StopCall
    \/ \E records \in Batches : AsyncUpdateRecords(records)
    \/ OnDisconnect
    \/ LoginDeviceInfo
    \/ \E kind \in Kinds : \E infos \in ReportedLists : LoginListEntities(kind, infos)
    \/ \E kind \in Kinds : \E st \in SessionStates : LoginEntityState(kind, st)

SpecSession == Init /\ [][NextSession]_vars

\* =============================================================== claims
\* every variable of the program and its environment (not the history variables)
progVars == <<connected, zc_listening, zc_registered, reconnect_event, loop_task,
              loop, tries, wait_task, timers, entry_loaded, device_info,
              device_disabled, available, disconnect_callbacks, cb_calls, cb_made,
              cli_connected, login_pending, reauth_started, stop_tasks, started>>

\* C1: in every reachable state of a started supervisor at most one call of the
\* client's connect() is in flight.
C1_OneConnectInFlight == Cardinality(ConnectsInFlight) <= 1

\* an attempt in flight while a timer is pending and a wake signal has been raised
C1_Witness ==
    /\ Cardinality(ConnectsInFlight) = 1
    /\ reconnect_event
    /\ LiveTimers # {}

\* C2: the attempt counter is 0 right after a successful connection, and equals the
\* number k of failed attempts since the last success (or start): while the loop is
\* between attempts it is k, during the next attempt it is already k + 1.
C2_AttemptCounter ==
    /\ lastOp = "connect_ok" => tries = 0
    /\ \A i \in LoopIds :
        /\ loop[i] = "ready" => tries = fails
        /\ loop[i] = "connecting" => tries = fails + 1

\* two failures counted after an earlier connection (a callback exists only
\* once a connection has succeeded)
C2_Witness ==
    /\ cb_made > 0
    /\ fails = 2
    /\ tries = 2
    /\ lastOp = "connect_fail"

\* C3: at most one wait task is pending at any instant, and a connect failure
\* that finds a wait task pending creates none and leaves the pending one as it is.
C3_OneWaitTimer ==
    [][/\ Cardinality(LiveTimers') <= 1
       /\ (lastOp' = "connect_fail" /\ wait_task # NoTask)
              => UNCHANGED <<wait_task, timers>>]_vars

\* a failure has just found the sleeping timer of an earlier failure
C3_Witness ==
    /\ lastOp = "connect_fail"
    /\ wait_task # NoTask
    /\ timers[wait_task].pc = "sleeping"
    /\ timers[wait_task].n < fails

\* w is x rounded to the nearest integer, x = min(1.8^min(n, 10), 60), stated on
\* exact fractions: |x - w| <= 1/2.  From the exponent 7 on 1.8^m exceeds 60.
IsBackoffOf(w, n) ==
    LET m == Min(n, 10)
    IN  IF m >= 7
        THEN Pow(18, 7) >= 60 * Pow(10, 7) /\ w = 60
        ELSE /\ Pow(18, m) < 60 * Pow(10, m)
             /\ (2 * w - 1) * Pow(10, m) <= 2 * Pow(18, m)
             /\ 2 * Pow(18, m) <= (2 * w + 1) * Pow(10, m)

BackoffTable == (1 :> 2) @@ (2 :> 3) @@ (3 :> 6) @@ (4 :> 10) @@ (5 :> 19)
                @@ (10 :> 60) @@ (50 :> 60)

\* C4: with every retry raised by the previous timer, the timer scheduled after the
\* n-th consecutive failure waits round(min(1.8^min(n,10), 60)) seconds: 2, 3, 6,
\* 10, 19 for n = 1..5 and 60 for n = 10 and n = 50.
C4_BackoffWait ==
    \A w \in WaitIds :
        timers[w].pc = "sleeping" =>
            /\ IsBackoffOf(timers[w].wait_time, timers[w].n)
            /\ timers[w].n \in DOMAIN BackoffTable
                   => timers[w].wait_time = BackoffTable[timers[w].n]

\* the timer of the 50th consecutive failure is sleeping
C4_Witness ==
    \E w \in WaitIds :
        timers[w].pc = "sleeping" /\ timers[w].n = 50 /\ timers[w].wait_time = 60

HasOwnPointer(records) ==
    \E k \in 1..Len(records) :
        records[k] = [type |-> "PTR", alias |-> "dev1._esphomelib._tcp.local."]

\* C6: the zeroconf callback sets the wake signal exactly when the supervisor is
\* not connected, the signal is not set, entry data and device info are known and
\* the batch holds a pointer record for the device's own service name; in every
\* other case it changes nothing.
C6_DiscoveryFrame ==
    [][lastOp' \in {"discovery_wake", "discovery_noop"} =>
       \A records \in Batches :
          AsyncUpdateRecords(records) =>
              IF /\ ~connected
                 /\ ~reconnect_event
                 /\ entry_loaded
                 /\ device_info = "dev1"
                 /\ HasOwnPointer(records)
              THEN /\ reconnect_event'
                   /\ UNCHANGED <<connected, zcVars, taskVars, tries, entryVars,
                                  envVars>>
              ELSE UNCHANGED progVars]_vars

\* the callback ran with the signal clear and the device known, found no record
\* of its own (records of another device at most) and did nothing
C6_Witness ==
    /\ lastOp = "discovery_noop"
    /\ ~connected
    /\ ~reconnect_event
    /\ entry_loaded
    /\ device_info # NoInfo

C8_StopEffect ==
    [][lastOp' = "stop" =>
          /\ loop_task' = NoTask
          /\ loop_task # NoTask => loop'[loop_task] = "cancelled"
          /\ LiveLoops' = {}
          /\ wait_task' = NoTask
          /\ LiveTimers' = {}
          /\ ~zc_listening'
          /\ zc_registered' = 0
          /\ UNCHANGED <<connected, tries, cli_connected>>
          /\ (loop_task = NoTask /\ wait_task = NoTask /\ ~zc_listening)
                 => UNCHANGED <<connected, zcVars, reconnect_event, taskVars,
                                tries, entryVars, cli_connected, login_pending,
                                reauth_started, started>>]_vars

\* stop() has cancelled an attempt in flight and a sleeping timer while the
\* listener was registered
C8_Witness ==
    /\ lastOp = "stop"
    /\ \E i \in LoopIds : loop[i] = "cancelled"
    /\ \E w \in WaitIds : timers[w].pc = "cancelled"
    /\ tries > 0
    /\ zc_registered = 0

\* C9: once stop() has returned no wake signal is processed: no step of the loop
\* (no attempt started, none completed), no wait task created or started, no timer
\* raising the signal, and no loop or wait task left alive.
C9_NoWakeAfterStop ==
    [][stop_returned =>
          /\ lastOp' \notin {"try_connect", "reconnect_skip", "connect_fail",
                             "connect_error", "connect_ok", "wait_start",
                             "timer_fire"}
          /\ LiveLoops' = {}
          /\ LiveTimers' = {}
          /\ wait_task' = NoTask]_vars

\* stop() has returned with the wake signal set and a timer cancelled, and the
\* program has moved on
C9_Witness ==
    /\ stop_returned
    /\ reconnect_event
    /\ \E w \in WaitIds : timers[w].pc = "cancelled"
    /\ lastOp \notin {"stop", "cleanup"}

\* C10: the connection-loss hook of a registered session calls every pending
\* disconnect callback once (each exactly once overall), empties the list, marks
\* the device unavailable, resets the attempt counter, registers the discovery
\* listener, and leaves _connected False and the wake signal set.
C10_DisconnectHook ==
    [][/\ (lastOp' \in {"on_disconnect", "on_disconnect_noop"} /\ entry_loaded)
              => lastOp' = "on_disconnect"
       /\ lastOp' = "on_disconnect" =>
              /\ \A c \in CallbackIds :
                     cb_calls'[c] = IF c \in Range(disconnect_callbacks)
                                    THEN 1 ELSE cb_calls[c]
              /\ disconnect_callbacks' = <<>>
              /\ ~available'
              /\ tries' = 0
              /\ zc_listening'
              /\ zc_registered' = 1
              /\ ~connected'
              /\ reconnect_event']_vars

\* the hook has run with two callbacks pending
C10_Witness ==
    /\ lastOp = "on_disconnect"
    /\ \E c, d \in CallbackIds : c # d /\ cb_calls[c] = 1 /\ cb_calls[d] = 1

C12_LoopSurvives ==
    /\ [][/\ \A i \in LoopIds :
                 (i \in LiveLoops /\ i \notin LiveLoops') => lastOp' = "stop"
          /\ lastOp' = "connect_error" =>
                 /\ \E i \in LoopIds :
                        /\ loop[i] = "connecting"
                        /\ loop' = [loop EXCEPT ![i] = "ready"]
                        /\ loop_task' = i
                 /\ UNCHANGED <<connected, zcVars, reconnect_event, tries,
                                wait_task, timers, entryVars, envVars>>]_vars
    /\ []((lastOp = "connect_error" /\ reconnect_event)
              => ENABLED (\E i \in LoopIds : ReconnectOnceLim(i, tries + 1)))

\* the exception was caught while a wake signal was already raised again, after
\* an earlier failure
C12_Witness ==
    /\ lastOp = "connect_error"
    /\ reconnect_event
    /\ fails >= 2
    /\ loop_task # NoTask
    /\ loop[loop_task] = "ready"

\* C13: in every reachable state the discovery listener is registered with
\* zeroconf at most once (registrations minus removals is 0 or 1), and it is
\* registered exactly when _zc_listening is true.
C13_ListenerOnce ==
    /\ zc_registered \in {0, 1}
    /\ zc_listening <=> zc_registered = 1

\* _start_zc_listen has run a second time while listening, after a connection had
\* succeeded (and removed the listener) and was lost again
C13_Witness ==
    /\ lastOp = "connect_fail"
    /\ fails >= 2
    /\ cb_made > 0
    /\ zc_listening
    /\ zc_registered = 1

\* the keys of the infos of a list that belong to the platform `kind`
ListedKeys(kind, infos) ==
    {infos[n].key : n \in {m \in 1..Len(infos) : infos[m].kind = kind}}

\* the keys named by the removal signals
RemovedKeys == {signals[n].key : n \in {m \in 1..Len(signals) : signals[m].op = "remove"}}

\* C14: after async_list_entities(kind, L), info[kind] maps exactly the keys of L
\* of that kind to an incoming info, old_info[kind] holds exactly the keys that
\* were in info[kind] and are absent from L (whatever it held before), the
\* removal signals name exactly those keys, and the added entities are exactly
\* the keys of L that were not in info[kind] before.
C14_ListEntitiesResult ==
    [][\A kind \in Kinds : \A infos \in InfoLists :
          AsyncListEntities(kind, infos) =>
              /\ KeysOf(info'[kind]) = ListedKeys(kind, infos)
              /\ \A k \in KeysOf(info'[kind]) :
                     \E n \in 1..Len(infos) :
                         infos[n] = [kind |-> kind, key |-> k,
                                     name |-> info'[kind][k]]
              /\ KeysOf(old_info'[kind])
                     = KeysOf(info[kind]) \ ListedKeys(kind, infos)
              /\ \A k \in KeysOf(old_info'[kind]) :
                     old_info'[kind][k] = info[kind][k]
              /\ RemovedKeys' = KeysOf(old_info'[kind])
              /\ Range(add_entities')
                     = ListedKeys(kind, infos) \ KeysOf(info[kind])]_vars

\* the platform the last async_list_entities call belonged to
ListedKind == signals[Len(signals)].kind

\* C15: after every call of async_list_entities and async_entity_state, for every
\* platform no key is in both old_info and info, and every key the most recent
\* async_list_entities of a platform removed is in old_info of that platform: it
\* is there after the call, and no other call changes old_info of the platform.
C15_OldInfoHoldsRemoved ==
    /\ [](\A kind \in Kinds : KeysOf(info[kind]) \cap KeysOf(old_info[kind]) = {})
    /\ [][/\ lastOp' = "list_entities" =>
                 /\ RemovedKeys' = KeysOf(info[ListedKind']) \ KeysOf(info'[ListedKind'])
                 /\ RemovedKeys' \subseteq KeysOf(old_info'[ListedKind'])
          /\ \A kind \in Kinds :
                 (lastOp' # "list_entities" \/ ListedKind' # kind)
                     => old_info'[kind] = old_info[kind]]_vars

\* a state arrived after a list that removed one sensor and named another
C15_Witness ==
    /\ lastOp = "entity_state"
    /\ KeysOf(info["sensor"]) # {}
    /\ KeysOf(old_info["sensor"]) # {}

\* C16: one call of async_list_entities sends exactly one removal signal for each
\* key it removes (the keys of info that the list does not name) and none for
\* another key, then calls async_add_entities exactly once, after every removal,
\* with the whole list of the entities it made.
C16_SignalOrder ==
    [][lastOp' = "list_entities" =>
          LET n == Len(signals')
              kind == ListedKind'
              removed == KeysOf(info[kind]) \ KeysOf(info'[kind])
          IN  /\ n >= 1
              /\ signals'[n] = AddSignal(kind, add_entities')
              /\ \A m \in 1..(n - 1) :
                     /\ signals'[m].op = "remove"
                     /\ signals'[m].kind = kind
                     /\ signals'[m].key \in removed
              /\ \A k \in removed :
                     Cardinality({m \in 1..(n - 1) : signals'[m].key = k}) = 1]_vars

\* a call has removed two entities and made one
C16_Witness ==
    /\ lastOp = "list_entities"
    /\ Len(signals) = 3
    /\ Len(add_entities) = 1

\* C17: async_list_entities called twice in a row with the same list: the second
\* call removes nothing, makes no entity, and leaves info[kind] as the first call
\* left it.
C17_ListTwiceSame ==
    [][\A kind \in Kinds : \A infos \in InfoLists :
          AsyncListEntities(kind, infos) =>
              LET second == ListResult(kind, infos, info'[kind])
              IN  /\ KeysOf(second.old) = {}
                  /\ second.add = <<>>
                  /\ second.new = info'[kind]]_vars

\* C18: async_entity_state of a platform takes a state of its type for every key,
\* in info, in old_info or in neither; afterwards state[kind][key] is the value
\* sent whatever was stored, exactly one update signal, for (kind, key), has been
\* sent, and no other key's and no other platform's state has changed (a state of
\* another type changes nothing).
C18_EntityStateStored ==
    /\ [](\A st \in SentStates : ENABLED AsyncEntityState(st.kind, st))
    /\ [][\A kind \in Kinds : \A st \in SentStates :
             AsyncEntityState(kind, st) =>
                 IF st.kind = kind
                 THEN /\ state'[kind][st.key] = st.value
                      /\ signals' = <<UpdateSignal(kind, st.key)>>
                      /\ \A c \in Kinds : \A k \in Keys :
                             (c # kind \/ k # st.key) => state'[c][k] = state[c][k]
                 ELSE state' = state /\ signals' = <<>>]_vars

\* a state has arrived for a sensor key that is in neither info nor old_info,
\* while another sensor (in info) and a switch have a state
C18_Witness ==
    /\ lastOp = "entity_state"
    /\ signals = <<UpdateSignal("sensor", 2)>>
    /\ info["sensor"][2] = Absent
    /\ old_info["sensor"][2] = Absent
    /\ info["sensor"][1] # Absent
    /\ state["sensor"][1] # Absent
    /\ state["switch"][1] # Absent

\* C19: async_list_entities changes no stored state: what an entity reads through
\* _has_state and _state is the same after the call as before, for the keys the
\* call made an entity for (their state, sent before the key was listed, is
\* still there), for the keys it kept, and for every other key of any platform.
C19_ListKeepsStates ==
    [][lastOp' = "list_entities" =>
          /\ state' = state
          /\ \A c \in Kinds : \A k \in Keys :
                 /\ HasState(c, k)' = HasState(c, k)
                 /\ HasState(c, k) => StateOf(c, k)' = StateOf(c, k)]_vars

\* a call has made an entity for a key that had a state already and has kept
\* another key that has a state
C19_Witness ==
    /\ lastOp = "list_entities"
    /\ \E k \in Range(add_entities) : HasState(ListedKind, k)
    /\ \E k \in KeysOf(info[ListedKind]) \ Range(add_entities) :
           HasState(ListedKind, k)

\* C20: no step of the supervisor or of the session (start, stop, a connect
\* attempt begun, succeeded or failed, the disconnect hook, a wait task started
\* or fired, a zeroconf record, the first half of on_login) changes info,
\* old_info or state of any platform: the infos listed in an earlier connection
\* are still there when the device is connected again.  Hence when the device
\* listed the sensors {1,2,3}, was disconnected and connected again and lists
\* {2,3,4}, there is one removal signal, for key 1, and async_add_entities is
\* called with the entity of key 4 alone: none is made for the keys 2 and 3.  In
\* general, for a list naming each key once, the removals are the keys of info
\* not listed and the entities made are the keys listed that were not in info.
C20_SupervisorKeepsInfos ==
    [][/\ lastOp' \notin {"list_entities", "entity_state", "entity_state_skip"}
              => UNCHANGED <<info, old_info, state>>
       /\ lastOp' = "list_entities" =>
              LET kind == ListedKind'
                  before == KeysOf(info[kind])
                  after == KeysOf(info'[kind])
              IN  /\ signals' = ListSignals(kind, KeyList(before \ after),
                                            KeyList(after \ before))
                  /\ add_entities' = KeyList(after \ before)
                  /\ (kind = "sensor" /\ before = {1, 2, 3} /\ after = {2, 3, 4})
                         => /\ signals' = <<[op |-> "remove", kind |-> "sensor",
                                            key |-> 1, batch |-> <<>>],
                                           [op |-> "add", kind |-> "sensor",
                                            key |-> 0, batch |-> <<4>>]>>
                            /\ add_entities' = <<4>>]_vars

\* The sensors {2,3,4} have just been listed and sensor 1 removed.  on_login
\* sends one list per connection and nothing comes from the store, so {1,2,3}
\* was listed in an earlier connection; a state of sensor 1 has been kept.
C20_Witness ==
    /\ lastOp = "list_entities"
    /\ KeysOf(info["sensor"]) = {2, 3, 4}
    /\ KeysOf(old_info["sensor"]) = {1}
    /\ add_entities = <<4>>
    /\ Len(signals) = 2
    /\ HasState("sensor", 1)
    /\ tries = 0

\* ------------------------------------------------------ _setup_services
\* the characters of a device name
NameChars(name) ==
    IF name = DashName THEN <<"d", "e", "v", "-", "2">>
    ELSE <<"d", "e", "v", "1">>

\* str.replace("-", "_")
ReplaceDash(s) == [i \in DOMAIN s |-> IF s[i] = "-" THEN "_" ELSE s[i]]

\* the types of ARG_TYPE_METADATA
KnownArgTypes == {"bool", "int"}
\* the args of a service: their types, in order
ServiceArgs == {<<>>, <<"int">>, <<"weird">>, <<"int", "weird">>}
\* UserService.  Its key is the hash of its name, so the key stands for
\* the name too.
UserServices == [key : ServiceKeys, args : ServiceArgs]

\* what a device lists: services of distinct names, in any order
ServiceLists ==
    {l \in UNION {[1..n -> UserServices] : n \in 0..MaxServices} :
        \A i, j \in DOMAIN l : i # j => l[i].key # l[j].key}

\* the name _register_service registers a service under
RegisterName(name, service) ==
    [node |-> ReplaceDash(NameChars(name)), key |-> service.key]
\* the name _setup_services removes a service under
RemoveName(name, service) ==
    [node |-> NameChars(name), key |-> service.key]

\* the loop over arg in service.args: FALSE when it returns early
ArgsKnown(service) ==
    \A i \in DOMAIN service.args : service.args[i] \in KnownArgTypes

\* the services of a dict whose keys are in ks, in the order of ks
RECURSIVE ServicesOf(_, _)
ServicesOf(d, ks) ==
    IF ks = <<>> THEN <<>>
    ELSE <<[key |-> Head(ks), args |-> d[Head(ks)]]>> \o ServicesOf(d, Tail(ks))

\* The loop over services, from the i-th on: acc.old is old_services,
\* acc.unreg is to_unregister and acc.reg is to_register.
RECURSIVE ServiceLoop(_, _, _)
ServiceLoop(svcs, i, acc) ==
    IF i > Len(svcs) THEN acc
    ELSE LET service == svcs[i]
             matching == [key |-> service.key, args |-> acc.old[service.key]]
             popped == [acc EXCEPT !.old[service.key] = NoService]
         IN  IF acc.old[service.key] # NoService
             THEN IF matching # service
                  THEN ServiceLoop(svcs, i + 1,
                           [popped EXCEPT !.unreg = Append(@, matching),
                                          !.reg = Append(@, service)])
                  ELSE ServiceLoop(svcs, i + 1, popped)
             ELSE ServiceLoop(svcs, i + 1,
                      [acc EXCEPT !.reg = Append(@, service)])

\* to_unregister and to_register once the services that are left in
\* old_services are added (a dict is walked in key order here)
ServiceResult(svcs, old) ==
    LET r == ServiceLoop(svcs, 1, [old |-> old, unreg |-> <<>>, reg |-> <<>>])
        rest == KeyList({k \in ServiceKeys : r.old[k] # NoService})
    IN  [unreg |-> r.unreg \o ServicesOf(r.old, rest), reg |-> r.reg]

\* {serv.key: serv for serv in services}
ServiceDict(svcs) ==
    [k \in ServiceKeys |->
        IF \E i \in DOMAIN svcs : svcs[i].key = k
        THEN svcs[CHOOSE i \in DOMAIN svcs :
                     /\ svcs[i].key = k
                     /\ \A j \in DOMAIN svcs : svcs[j].key = k => j <= i].args
        ELSE NoService]

\* the calls of the loop over to_unregister
RECURSIVE RemoveCalls(_, _)
RemoveCalls(name, unreg) ==
    IF unreg = <<>> THEN <<>>
    ELSE <<[op |-> "remove", name |-> RemoveName(name, Head(unreg)),
            key |-> Head(unreg).key]>>
         \o RemoveCalls(name, Tail(unreg))

\* the calls of the loop over to_register: _register_service returns
\* before async_register when a type is not known
RECURSIVE RegisterCalls(_, _)
RegisterCalls(name, reg) ==
    IF reg = <<>> THEN <<>>
    ELSE (IF ArgsKnown(Head(reg))
          THEN <<[op |-> "register", name |-> RegisterName(name, Head(reg)),
                  key |-> Head(reg).key]>>
          ELSE <<>>)
         \o RegisterCalls(name, Tail(reg))

\* the calls of one _setup_services on hass.services, in order
SetupCalls(name, r) ==
    RemoveCalls(name, r.unreg) \o RegisterCalls(name, r.reg)

\* hass.services after the calls cs: async_remove of a name that is not
\* registered changes nothing, async_register replaces
RECURSIVE ApplyCalls(_, _)
ApplyCalls(reg, cs) ==
    IF cs = <<>> THEN reg
    ELSE ApplyCalls(IF Head(cs).op = "remove" THEN reg \ {Head(cs).name}
                    ELSE reg \cup {Head(cs).name},
                    Tail(cs))

\* _setup_services(hass, entry_data, services)
SetupServices(svcs) ==
    /\ entry_loaded
    /\ IF device_info = NoInfo
       THEN /\ lastOp' = "setup_services_skip"
            /\ UNCHANGED serviceVars
       ELSE \E r \in {ServiceResult(svcs, services)} :
            \E cs \in {SetupCalls(device_info, r)} :
                /\ services' = ServiceDict(svcs)
                /\ calls' = cs
                /\ registered' = ApplyCalls(registered, cs)
                /\ lastOp' = "setup_services"
    /\ UNCHANGED <<connected, zcVars, reconnect_event, taskVars, tries,
                   entryVars, envVars, ghostVars>>
    /\ UNCHANGED <<info, old_info, state, add_entities, signals, list_pending,
                   entityVars>>

\* the services of a device are set up from the store and at each login
InitServices == InitNamed({NoInfo, OwnName, DashName})
NextServices == \E svcs \in ServiceLists : SetupServices(svcs)
SpecServices == InitServices /\ [][NextServices]_vars

\* the names the services of entry_data.services are to be called by
ExpectedNames ==
    {RegisterName(device_info, [key |-> k, args |-> services[k]]) :
        k \in {j \in ServiceKeys :
                  /\ services[j] # NoService
                  /\ ArgsKnown([key |-> j, args |-> services[j]])}}

\* C21: once _setup_services has run with the device info known, whatever
\* the name of the device, the names registered are those of the listed
\* services whose arg types are all known, and no other
C21_RegisteredIsListed ==
    lastOp = "setup_services" => registered = ExpectedNames

\* the service entry_data.services holds under key k
ServiceAt(d, k) == [key |-> k, args |-> d[k]]

\* the places in the calls cs of the calls op of the service of key k
\* under the name nm
CallsOf(cs, op, k, nm) ==
    {i \in DOMAIN cs : cs[i].op = op /\ cs[i].key = k /\ cs[i].name = nm}

\* C22: in one _setup_services, a service listed before and now with
\* other args is removed under its registered name and then registered
\* (when its arg types are known, see C23), a service listed before and
\* now the same is neither removed nor registered, and every removal
\* comes before every registration
C22_RemoveThenRegister ==
    [][lastOp' = "setup_services" =>
        /\ \A k \in ServiceKeys :
            /\ (/\ services[k] # NoService
                /\ services'[k] # NoService
                /\ services'[k] # services[k])
               => \E i \in CallsOf(calls', "remove", k,
                                   RegisterName(device_info, ServiceAt(services, k))) :
                      ArgsKnown(ServiceAt(services', k))
                      => \E j \in CallsOf(calls', "register", k,
                                   RegisterName(device_info, ServiceAt(services', k))) :
                             i < j
            /\ (services[k] # NoService /\ services'[k] = services[k])
               => \A i \in DOMAIN calls' : calls'[i].key # k
        /\ \A i, j \in DOMAIN calls' :
               (calls'[i].op = "remove" /\ calls'[j].op = "register") => i < j
    ]_vars

\* C23: after one _setup_services, a listed service with an arg of a type
\* that is not known is not registered, and every other listed service
\* that was new or had changed is
C23_UnknownTypeSkipped ==
    [][lastOp' = "setup_services" =>
        \A k \in ServiceKeys :
            services'[k] # NoService =>
                IF ArgsKnown(ServiceAt(services', k))
                THEN services'[k] # services[k]
                     => RegisterName(device_info, ServiceAt(services', k))
                            \in registered'
                ELSE RegisterName(device_info, ServiceAt(services', k))
                         \notin registered'
    ]_vars

\* ---------------------------------------------------- EsphomeEntity
\* a device that may sleep: its sessions, with the lists of its logins
InitEntities == InitDevice({NoInfo, OwnName}, BOOLEAN)
NextEntities ==
    \/ Start
    \/ \E i \in LoopIds : ReconnectOnceLim(i, MaxTriesSmall)
    \/ \E i \in LoopIds : ConnectFail(i, FALSE)
    \/ \E i \in LoopIds : ConnectSucceed(i)
    \/ OnDisconnect
    \/ LoginDeviceInfo
    \/ \E kind \in Kinds : \E infos \in ReportedLists : LoginListEntities(kind, infos)
SpecEntities == InitEntities /\ [][NextEntities]_vars

\* the entities that have received the device update
Subscribed == {<<c, k>> \in Kinds \X Keys : info[c][k] # Absent}

\* C24: an entity is available exactly when the session is or the device
\* may sleep; at the device update of a login no entity writes its state,
\* at the device update of a disconnect every entity writes it once
C24_DeviceUpdateWrites ==
    /\ EntityAvailable <=> (available \/ has_deep_sleep)
    /\ lastOp = "login" => \A c \in Kinds, k \in Keys : writes[c][k] = 0
    /\ lastOp = "on_disconnect" =>
           \A c \in Kinds, k \in Keys :
               writes[c][k] = IF <<c, k>> \in Subscribed THEN 1 ELSE 0

C24_Witness ==
    /\ lastOp = "on_disconnect"
    /\ has_deep_sleep
    /\ ~available
    /\ \E e \in Subscribed : writes[e[1]][e[2]] = 1

\* a _reconnect_loop task goes from ready to connecting in this step
ConnectStarted == \E i \in LoopIds : loop[i] = "ready" /\ loop'[i] = "connecting"

\* C25: a connect is started only when the entry is loaded, its device is
\* not disabled and the supervisor is not connected; a reconnect event
\* consumed otherwise is cleared and nothing is tried; an on_stop hook that
\* runs once the entry data is removed calls no callback, does not set the
\* event and leaves the supervisor as it is
C25_NoConnectWhenGone ==
    [][/\ ConnectStarted => (entry_loaded /\ ~device_disabled /\ ~connected)
       /\ (/\ lastOp' \in {"try_connect", "reconnect_skip"}
           /\ reconnect_event
           /\ (~entry_loaded \/ device_disabled \/ connected))
          => (~reconnect_event' /\ ~ConnectStarted /\ tries' = tries)
       /\ (cli_connected /\ ~cli_connected' /\ ~entry_loaded)
          => UNCHANGED <<cb_calls, reconnect_event, connected, tries, zcVars,
                         taskVars, available, disconnect_callbacks>>
    ]_vars

C25_Witness ==
    /\ lastOp = "reconnect_skip"
    /\ ~connected
    /\ ~entry_loaded
    /\ ~reconnect_event
    /\ loop_task # NoTask

\* ------------------------------------- async_list_entities, step by step
\* info[kind] and old_info[kind] as they are when async_list_entities, called
\* with cur as info[kind] and prev as old_info[kind], makes the entity of the
\* i-th element: old_infos is the dict info[kind] itself, with the keys of
\* the elements before the i-th popped
ConstructPoints(kind, infos, cur, prev) ==
    {[at |-> "construct", key |-> infos[i].key,
      current |-> ListResult(kind, SubSeq(infos, 1, i - 1), cur).old,
      previous |-> prev] :
        i \in {j \in DOMAIN infos :
                  /\ infos[j].kind = kind
                  /\ ListResult(kind, SubSeq(infos, 1, j - 1), cur).old[infos[j].key]
                         = Absent}}

\* ... when it calls async_remove_entity: the loop is over, neither dict is
\* assigned yet
RemovePoints(kind, infos, cur, prev) ==
    {[at |-> "remove", key |-> k,
      current |-> ListResult(kind, infos, cur).old,
      previous |-> prev] : k \in KeysOf(ListResult(kind, infos, cur).old)}

\* ... when it calls async_add_entities: both dicts are assigned
AddPoints(kind, infos, cur, prev) ==
    {[at |-> "add", key |-> 0,
      current |-> ListResult(kind, infos, cur).new,
      previous |-> ListResult(kind, infos, cur).old]}

ListPoints(kind, infos, cur, prev) ==
    ConstructPoints(kind, infos, cur, prev)
        \cup RemovePoints(kind, infos, cur, prev)
        \cup AddPoints(kind, infos, cur, prev)

\* C26: at each entity construction, each removal signal and the call of
\* async_add_entities of one async_list_entities, every key info[kind] had
\* before the call is in exactly one of info[kind] and old_info[kind], and
\* the key of a removal signal is in old_info[kind]
C26_SnapshotAtHandover ==
    [][\A kind \in Kinds : \A infos \in InfoLists :
          AsyncListEntities(kind, infos) =>
              \A p \in ListPoints(kind, infos, info[kind], old_info[kind]) :
                  /\ \A k \in KeysOf(info[kind]) :
                         (p.current[k] # Absent) # (p.previous[k] # Absent)
                  /\ p.at = "remove" => p.previous[p.key] # Absent]_vars

\* the times key k is in the batch
TimesIn(batch, k) == Cardinality({n \in DOMAIN batch : batch[n] = k})

\* C27: whatever the list, a key that is in info[kind] before the call and
\* in the list is kept, with no removal signal and no new entity, and no
\* key gets more than one new entity in one call
C27_KeptKeyNotRemade ==
    [][\A kind \in Kinds : \A infos \in InfoLists :
          AsyncListEntities(kind, infos) =>
              /\ \A k \in KeysOf(info[kind]) \cap ListedKeys(kind, infos) :
                     /\ k \notin RemovedKeys'
                     /\ TimesIn(add_entities', k) = 0
              /\ \A k \in Keys : TimesIn(add_entities', k) <= 1]_vars

\* ------------------------------------------------- retries of a session
\* a session whose entry stays loaded and enabled and that is not stopped
NextRetry ==
    \/ Start
    \/ \E i \in LoopIds : ReconnectOnce(i)
    \/ \E i \in LoopIds : \E auth \in BOOLEAN : ConnectFail(i, auth)
    \/ \E i \in LoopIds : ConnectRaise(i)
    \/ \E i \in LoopIds : ConnectSucceed(i)
    \/ \E w \in WaitIds : WaitStart(w)
    \/ \E w \in WaitIds : TimerFire(w)
    \/ \E records \in Batches : AsyncUpdateRecords(records)
    \/ OnDisconnect
    \/ LoginDeviceInfo
SpecRetry == Init /\ [][NextRetry]_vars

\* C28: when the supervisor is not connected and its last connect failed, a
\* wait task is pending, or the reconnect event is set, or a connect is in
\* flight
C28_RetryPending ==
    (started /\ ~connected /\ fails > 0) =>
        \/ LiveTimers # {}
        \/ reconnect_event
        \/ ConnectsInFlight # {}

\* the _reconnect_loop tasks that start a connect in this step
StartedNow == {i \in LoopIds : loop[i] = "ready" /\ loop'[i] = "connecting"}
\* the reconnect event is consumed in this step
EventConsumed == reconnect_event /\ ~reconnect_event'

\* C29 as stated: every consumption of the event starts exactly one connect,
\* and an event set while a connect is in flight stays set until that
\* connect is over
C29_OneAttemptPerWake ==
    [][/\ EventConsumed => Cardinality(StartedNow) = 1
       /\ (ConnectsInFlight # {} /\ reconnect_event) => reconnect_event']_vars

\* C29: the event is a flag.  A connect is started only by a step that
\* consumes it, a consumption starts one connect when _reconnect_once does not
\* return early and none when it does, whatever the number of set() calls
\* before; an event set while a connect is in flight stays set until that
\* connect is over, and a loop that is back at its wait with the event set
\* can consume it
C29_WakeCoalesced ==
    /\ [](\A i \in LoopIds :
             (reconnect_event /\ loop[i] = "ready" /\ tries < MaxTries)
                 => ENABLED ReconnectOnce(i))
    /\ [][/\ StartedNow # {} => EventConsumed
          /\ EventConsumed =>
                 Cardinality(StartedNow) =
                     IF connected \/ ~entry_loaded \/ device_disabled THEN 0 ELSE 1
          /\ (ConnectsInFlight # {} /\ reconnect_event) => reconnect_event'
       ]_vars

\* the timer fired while a connect (started by a discovery record) is in flight
C29_Witness ==
    /\ lastOp = "timer_fire"
    /\ ConnectsInFlight # {}
    /\ reconnect_event
    /\ fails > 0
====
